---- MODULE Spec2Model ----
(***************************************************************************)
(* Contextual RAG pipeline of adaptive-cag: the ingestion handler          *)
(* (components/data_pipeline/event_handler/index.py), its Bedrock stream   *)
(* adapter, and the query-side agent (components/agent/runtime/app).       *)
(*                                                                         *)
(* Texts are sequences of tokens (sentences / fragments), a chunk id       *)
(* f"{event_id}-{idx}" is the pair <<event_id, idx>> (the format is        *)
(* injective because idx is a decimal integer after the last dash).        *)
(* The external services (Secrets Manager, Bedrock, Pinecone inference,    *)
(* Pinecone index) answer nondeterministically: every call either succeeds *)
(* or raises.                                                               *)
(***************************************************************************)
EXTENDS Integers, Sequences, FiniteSets, TLC

(***************************** bounds **************************************)
\* longest batch of Kinesis records handed to one handler invocation
MaxBatch == 2
\* handler invocations that process the same record at the same time
MaxWorkers == 2
MaxStream == 4

(************************* program constants *******************************)
CHUNK_SIZE == 512
OVERLAP == 100
SEPARATOR_LEN == 1
MAX_ATTEMPTS == 5
ROUTER_TOP_K == 5
CONTEXT_TOP_K == 10
RERANK_TOP_N == 3
RETRY_ATTEMPTS == 0
ROUTER == "router"
Topical == {"tech", "world", "sports", "business"}

(************************* small universes *********************************)
\* sentences of the modelled bodies and their lengths in characters
SentenceLen == [s \in {"s1", "s2", "s3", "s4"} |->
                  CASE s = "s1" -> 300 [] s = "s2" -> 300
                    [] s = "s3" -> 150 [] OTHER -> 90]

BodyA == <<"s1", "s2">>
BodyB == <<"s1", "s3">>
BodyC == <<"s3", "s4", "s1">>
BodyD == <<"s1", "s2", "s1", "s2">>

EvA == [event_id |-> "E1", summary |-> "S1", event |-> BodyA, updated_at |-> 1]
EvB == [event_id |-> "E2", summary |-> "S2", event |-> BodyB, updated_at |-> 1]
EvC == [event_id |-> "E2", summary |-> "S2", event |-> BodyC, updated_at |-> 2]
EvEmpty == [event_id |-> "E2", summary |-> "S1", event |-> <<>>, updated_at |-> 1]
EvD == [event_id |-> "E3", summary |-> "S1", event |-> BodyD, updated_at |-> 1]

Without(f, k) == [x \in (DOMAIN f) \ {k} |-> f[x]]

\* the data of a Kinesis record: a JSON document or bytes that do not parse
Json(b) == [json |-> TRUE, body |-> b]
Garbage == [json |-> FALSE, body |-> <<>>]

\* the record populations a stream may carry
Feeds ==
  { {Json(EvA), Json(EvB), Garbage},
    {Json(EvB)} \cup {Json(Without(EvB, k)) :
                        k \in {"event", "summary", "event_id", "updated_at"}},
    {Json(EvB), Json(EvC)},
    {Json(EvEmpty), Json(Without(EvEmpty, "updated_at")), Json(EvA)} }

\* a stream whose event fills one namespace with more candidates than the
\* reranker keeps
LongFeed == {Json(EvD)}

RECURSIVE SeqsUpTo(_, _)
SeqsUpTo(S, n) ==
  IF n = 0 THEN {<<>>}
  ELSE LET shorter == SeqsUpTo(S, n - 1)
       IN  shorter \cup {Append(q, x) : q \in {r \in shorter : Len(r) = n - 1}, x \in S}

Batches(population) == {b \in SeqsUpTo(population, MaxBatch) : Len(b) >= 1}

\* events of a Bedrock response stream
Delta(t) == [type |-> "content_block_delta", text |-> t, stop |-> FALSE]
MsgDelta(s) == [type |-> "message_delta", text |-> "", stop |-> s]
MsgStart == [type |-> "message_start", text |-> "", stop |-> FALSE]

Streams ==
  { <<MsgStart, Delta("c1"), Delta("c2"), MsgDelta(TRUE)>>,
    <<Delta("c1"), Delta(""), MsgDelta(FALSE), Delta("c2"), MsgDelta(TRUE), Delta("c3")>>,
    <<Delta("c1"), MsgDelta(TRUE), Delta("c2")>> }

\* the events a response stream may carry, and every stream of them
StreamEvents ==
  {MsgStart, Delta("c1"), Delta("c2"), Delta(""), MsgDelta(FALSE), MsgDelta(TRUE)}
AdapterStreams == SeqsUpTo(StreamEvents, MaxStream)

(*************************** pure functions ********************************)
\* CharacterTextSplitter._merge_splits: the while loop that drops leading
\* splits of current_doc until the overlap fits
RECURSIVE DropForOverlap(_, _, _)
DropForOverlap(cur, total, len) ==
  IF total > OVERLAP
     \/ (total + len + (IF Len(cur) > 0 THEN SEPARATOR_LEN ELSE 0) > CHUNK_SIZE
         /\ total > 0)
  THEN DropForOverlap(Tail(cur),
                      total - (SentenceLen[Head(cur)]
                               + (IF Len(cur) > 1 THEN SEPARATOR_LEN ELSE 0)),
                      len)
  ELSE <<cur, total>>

RECURSIVE MergeSplits(_, _, _, _)
MergeSplits(splits, docs, cur, total) ==
  IF splits = <<>>
  THEN IF cur = <<>> THEN docs ELSE Append(docs, cur)
  ELSE LET d == Head(splits)
           len == SentenceLen[d]
           over == total + len + (IF Len(cur) > 0 THEN SEPARATOR_LEN ELSE 0)
                     > CHUNK_SIZE
           docs1 == IF over /\ Len(cur) > 0 THEN Append(docs, cur) ELSE docs
           kept == IF over /\ Len(cur) > 0
                   THEN DropForOverlap(cur, total, len)
                   ELSE <<cur, total>>
           cur1 == Append(kept[1], d)
           total1 == kept[2] + len + (IF Len(cur1) > 1 THEN SEPARATOR_LEN ELSE 0)
       IN  MergeSplits(Tail(splits), docs1, cur1, total1)

\* get_chunks: split on "." and merge into chunks of at most CHUNK_SIZE
get_chunks(text) == MergeSplits(text, <<>>, <<>>, 0)

\* every message_delta ends the stream, with or without a stop_reason
stops_on_any(chunk) == chunk.type = "message_delta"

\* elif chunk["type"] == "message_delta": if "stop_reason" in chunk["delta"]
stops(chunk) == chunk.type = "message_delta" /\ chunk.stop

\* BedrockStreamAdapter.invoke_model: the fragments the generator yields
RECURSIVE invoke_model(_)
invoke_model(stream) ==
  IF stream = <<>> THEN <<>>
  ELSE LET chunk == Head(stream)
       IN  IF chunk.type = "content_block_delta"
           THEN <<chunk.text>> \o invoke_model(Tail(stream))
           ELSE IF stops(chunk)
                THEN <<>>
                ELSE invoke_model(Tail(stream))

\* "".join(response for response in response_stream if response)
JoinNonEmpty(frags) == SelectSeq(frags, LAMBDA f : f # "")

\* chunk ids counted from 1 instead of 0
ChunkIdFromOne(event_id, i) == <<event_id, i + 1>>

\* the id of chunk idx of an event: f"{event_id}-{idx}"
ChunkId(event_id, i) == <<event_id, i>>

\* contextual_chunk + "\n\n" + chunk
ContextualText(contextual_chunk, chunk) == contextual_chunk \o <<"\n\n">> \o chunk

\* the embedding service: one vector per input text, in input order
EmbedOne(text, input_type) == [of |-> text, input_type |-> input_type]
EmbedAll(texts, input_type) == [k \in 1..Len(texts) |-> EmbedOne(texts[k], input_type)]

(************************** the vector index *******************************)
Namespaces == Topical \cup {ROUTER}

\* reference records of the router partition (imported when the index is made)
RouterRef(id, meta) == [id |-> id, values |-> [of |-> id, input_type |-> "passage"], metadata |-> meta]

RouterLabelled ==
  { RouterRef(<<"r1", 0>>, [text |-> <<"T1">>, namespace |-> "tech"]),
    RouterRef(<<"r2", 0>>, [text |-> <<"T2">>, namespace |-> "sports"]) }
RouterUnlabelled ==
  { RouterRef(<<"r1", 0>>, [text |-> <<"T1">>, namespace |-> "tech"]),
    RouterRef(<<"r2", 0>>, [text |-> <<"T2">>]) }
RouterVariants == {RouterLabelled, RouterUnlabelled, {}}

\* imports the answer graph may meet: a label its edge map does not know,
\* a best reference record without the namespace field
RouterForeign ==
  { RouterRef(<<"r1", 0>>, [text |-> <<"T1">>, namespace |-> "politics"]) }
RouterBare ==
  { RouterRef(<<"r1", 0>>, [text |-> <<"T1">>]),
    RouterRef(<<"r2", 0>>, [text |-> <<"T2">>, namespace |-> "sports"]) }
QueryOnlyRouters == {RouterForeign, RouterBare}

\* similarity of the index: a fixed, deterministic score per (query, record)
Affinity == { <<"S1", <<"r1", 0>>>>, <<"S2", <<"r2", 0>>>>,
              <<"S1", <<"E1", 1>>>>, <<"S2", <<"E2", 0>>>> }
IdRank(id) == id[2] + (CASE id[1] = "r1" -> 0 [] id[1] = "r2" -> 1
                         [] id[1] = "E1" -> 2 [] OTHER -> 6)
Score(vector, r) == (IF <<vector.of, r.id>> \in Affinity THEN 100 ELSE 0) - IdRank(r.id)

RECURSIVE Ranked(_, _)
Ranked(vector, S) ==
  IF S = {} THEN <<>>
  ELSE LET best == CHOOSE r \in S : \A o \in S : Score(vector, r) >= Score(vector, o)
       IN  <<best>> \o Ranked(vector, S \ {best})

Take(q, n) == SubSeq(q, 1, IF Len(q) < n THEN Len(q) ELSE n)

\* index.query(namespace, vector, top_k, include_metadata=True): the matches
QueryByVector(ix, ns, vector, top_k) ==
  LET hits == Take(Ranked(vector, ix[ns]), top_k)
  IN  [k \in 1..Len(hits) |-> [id |-> hits[k].id, metadata |-> hits[k].metadata]]

\* index.query(namespace, id, top_k=1): the record nearest to record id, itself
QueryById(ix, ns, id) ==
  LET hit == {r \in ix[ns] : r.id = id}
  IN  IF hit = {} THEN <<>>
      ELSE LET r == CHOOSE x \in hit : TRUE IN <<[id |-> r.id, metadata |-> r.metadata]>>

\* a write that replaces the whole content of the namespace
UpsertReplace(ix, ns, records) ==
  [ix EXCEPT ![ns] = {records[k] : k \in 1..Len(records)}]

\* an insert that keeps the records already stored under the same ids
UpsertInsert(ix, ns, records) ==
  [ix EXCEPT ![ns] = @ \cup {records[k] : k \in 1..Len(records)}]

\* index.upsert(vectors, namespace): last write wins per id
Upsert(ix, ns, records) ==
  LET ids == {records[k].id : k \in 1..Len(records)}
  IN  [ix EXCEPT ![ns] = {r \in @ : r.id \notin ids}
                          \cup {records[k] : k \in 1..Len(records)}]

\* the reranker: its own fixed relevance order, not the index's
Preferred == { <<"S1", <<"r1", 0>>>>, <<"S2", <<"r1", 0>>>>,
               <<"S1", <<"E1", 0>>>>, <<"S2", <<"E2", 0>>>> }
RerankScore(query, doc) == (IF <<query, doc.id>> \in Preferred THEN 100 ELSE 0) + IdRank(doc.id)

RECURSIVE Reranked(_, _)
Reranked(query, S) ==
  IF S = {} THEN <<>>
  ELSE LET best == CHOOSE d \in S : \A o \in S : RerankScore(query, d) >= RerankScore(query, o)
       IN  <<best>> \o Reranked(query, S \ {best})

\* pc.inference.rerank(query, documents, top_n): .data, best first
Rerank(query, documents, top_n) ==
  LET docs == {[id |-> documents[k].id, text |-> documents[k].metadata["text"]] :
                 k \in 1..Len(documents)}
      order == Take(Reranked(query, docs), top_n)
  IN  [k \in 1..Len(order) |-> [document |-> order[k]]]

\* the (stream, router import) pairs a deployment starts from
Deployments ==
  (Feeds \X RouterVariants) \cup {<<LongFeed, RouterLabelled>>}
    \cup ({{}} \X QueryOnlyRouters)

\* the questions a chat request may carry
Questions == {"", "S1", "S2"}

(****************************** state **************************************)
VARIABLES
  feed,          \* the records the stream may deliver
  index,         \* the Pinecone index: namespace -> set of records
  pc,            \* position of the running handler ("idle": none running)
  outcome,       \* how the handler invocation ended
  errors,        \* the exceptions raised by the steps of the invocation
  emb,           \* the frame of the running / last get_embeddings call
  queries,       \* index queries issued in the current invocation
  calls,         \* external service calls of the current invocation, in order
  event,         \* event["Records"] of the ingestion invocation
  rec,           \* number of records the for loop has taken
  record_body,   \* the parsed record being processed
  chunks,        \* get_chunks(record_body["event"])
  data,          \* the contextual chunks assembled so far
  embeddings,    \* the vectors of the passage embedding call
  upserts,       \* upsert calls issued for the current record
  query_results, \* matches of the last similarity search
  namespace,     \* the namespace get_namespace returned
  question,      \* the question of the chat request
  ranked_results,\* the reranked candidates
  state,         \* the GraphState of the answer graph
  trace,         \* the graph nodes executed, in order
  sent,          \* the fragments handed to the HTTP response
  attempt,       \* invocations the event source mapping made for the batch
  dlq,           \* messages the mapping sent to the dead-letter queue for it
  workers,       \* the frames of handler invocations running in parallel
  adapter        \* the frame of one invoke_model generator and its consumer

ingest == <<event, rec, record_body, chunks, data, embeddings, upserts>>
agent == <<question, ranked_results, state, trace, sent>>
delivery == <<attempt, dlq>>
vars == <<feed, index, pc, outcome, errors, emb, queries, calls, ingest,
          query_results, namespace, agent, delivery, workers, adapter>>

None == [kind |-> "none", exc |-> "none"]
Returned == [kind |-> "returned", exc |-> "none"]
Raised(exc) == [kind |-> "raised", exc |-> exc]

(*************************** get_embeddings ********************************)
EmbIdle ==
  [version |-> "none", texts |-> <<>>, input_type |-> "none", i |-> 0,
   passed |-> FALSE, response |-> <<>>, from |-> 0,
   attempts |-> <<>>, issuedAt |-> <<>>, now |-> 0,
   status |-> "none", value |-> <<>>]

\* entry of get_embeddings(pc, texts, input_type), either version
EmbCall(version, texts, input_type) ==
  [EmbIdle EXCEPT !.version = version, !.texts = texts,
                  !.input_type = input_type, !.status = "running"]

\* a backoff that grows linearly instead of doubling
BackoffLinear(i) == 2 * i

\* time.sleep(2**i)
Backoff(i) == 2 ^ i

\* an except branch that leaves `passed` as an earlier iteration set it
PassedKept(passed) == passed

\* the value of `passed` after the except branch
PassedAfterFailure(passed) == FALSE

\* for i in range(5): the loop has another iteration
LoopContinues(f) == f.i < MAX_ATTEMPTS

\* one iteration whose pc.inference.embed call succeeds
EmbedOk(f) ==
  [f EXCEPT !.response = EmbedAll(f.texts, f.input_type),
            !.from = f.i, !.passed = TRUE, !.i = f.i + 1,
            !.attempts = Append(@, TRUE), !.issuedAt = Append(@, f.now)]

\* one iteration whose pc.inference.embed call raises PineconeApiException
EmbedFail(f) ==
  [f EXCEPT !.passed = PassedAfterFailure(f.passed), !.i = f.i + 1,
            !.now = f.now + Backoff(f.i),
            !.attempts = Append(@, FALSE), !.issuedAt = Append(@, f.now)]

\* after the loop: raise RuntimeError unless passed, else return
EmbedExit(f) ==
  IF ~f.passed THEN [f EXCEPT !.status = "raised"]
  ELSE [f EXCEPT !.status = "returned",
                 !.value = IF f.version = "agent" THEN f.response[1] ELSE f.response]

(************************ ingestion: lambda_handler ************************)
\* an except clause that logs the error and goes on with the next record
except_swallow(exc) == [pc |-> "next_record", outcome |-> None]

\* except Exception as e: LOGGER.error(...); raise e
except_clause(exc) == [pc |-> "ended", outcome |-> Raised(exc)]

\* an exception raised inside the try block of the record loop
Fail(exc) ==
  /\ pc' = except_clause(exc).pc
  /\ outcome' = except_clause(exc).outcome
  /\ errors' = Append(errors, exc)

\* a generator that catches the exception and ends normally
PropagateMasked(exc) ==
  /\ pc' = "ended"
  /\ outcome' = Returned
  /\ errors' = Append(errors, exc)

\* a caller that answers an exception by trying the same step again
PropagateRetry(exc) ==
  /\ pc' = pc
  /\ outcome' = outcome
  /\ errors' = Append(errors, exc)

\* an exception that leaves the handler or the answer generator directly
Propagate(exc) ==
  /\ pc' = "ended"
  /\ outcome' = Raised(exc)
  /\ errors' = Append(errors, exc)

\* the namespace of the router similarity search and of the point lookup
ingest_search_namespace == "router"
ingest_lookup_namespace == "router"

\* an upsert into the namespace named by the NAMESPACE_NAME setting
upsert_into_env(ns) == "router"

\* the namespace argument of index.upsert
upsert_namespace(ns) == ns

\* every id paired with the vector of the chunk at the mirrored position
AssembleCrossed(body, d, e) ==
  [k \in 1..(IF Len(d) < Len(e) THEN Len(d) ELSE Len(e)) |->
     [id |-> d[k].id, values |-> e[Len(e) + 1 - k],
      metadata |-> [event_id |-> body["event_id"], text |-> d[k].text,
                    summary |-> body["summary"], updated_at |-> body["updated_at"]]]]

\* records = [...] for d, e in zip(data, embeddings)
AssembleRecords(body, d, e) ==
  [k \in 1..(IF Len(d) < Len(e) THEN Len(d) ELSE Len(e)) |->
     [id |-> d[k].id, values |-> e[k],
      metadata |-> [event_id |-> body["event_id"], text |-> d[k].text,
                    summary |-> body["summary"], updated_at |-> body["updated_at"]]]]

\* a lookup that falls back to a default namespace when the field is missing
namespace_default(metadata) ==
  [ok |-> TRUE,
   value |-> IF "namespace" \in DOMAIN metadata THEN metadata["namespace"] ELSE "world"]

\* metadata.matches[0]["metadata"]["namespace"]: the label, or KeyError
namespace_field(metadata) ==
  IF "namespace" \in DOMAIN metadata
  THEN [ok |-> TRUE, value |-> metadata["namespace"]]
  ELSE [ok |-> FALSE, value |-> "none"]

\* a chunk loop that hands over to the embedding after its first chunk
enrichment_cut(d, c) == Len(d) >= 1

\* for idx, chunk in enumerate(chunks): the loop has taken every chunk
enrichment_done(d, c) == Len(d) = Len(c)

\* the Kinesis event source invokes the handler with a batch of records
Deliver ==
  /\ pc = "idle"
  /\ \E b \in Batches(feed) : event' = b
  /\ pc' = "get_secret"
  /\ attempt' = 1
  /\ UNCHANGED <<feed, dlq, workers, adapter, index, outcome, errors, emb, queries, calls, rec, record_body,
                 chunks, data, embeddings, upserts, query_results, namespace, agent>>

\* a mapping that retries a failing batch without limit
retries_unbounded(n) == TRUE

\* retry_attempts of the event source mapping: invocation n may be retried
retries_left(n) == n <= RETRY_ATTEMPTS

\* the handler raised: the event source mapping invokes it again with the
\* same batch while retries are left, else sends the batch to on_failure
OnFailure ==
  /\ pc = "ended"
  /\ event # <<>>
  /\ outcome.kind = "raised"
  /\ dlq = <<>>
  /\ IF retries_left(attempt)
     THEN /\ attempt' = attempt + 1
          /\ pc' = "get_secret"
          /\ rec' = 0
          /\ record_body' = <<>> /\ chunks' = <<>> /\ data' = <<>> /\ embeddings' = <<>>
          /\ query_results' = <<>> /\ namespace' = "none"
          /\ outcome' = None /\ errors' = <<>> /\ emb' = EmbIdle /\ upserts' = <<>>
          /\ queries' = {}
          /\ calls' = <<>>
          /\ UNCHANGED <<dlq, event>>
     ELSE /\ dlq' = <<[batch |-> event, attempts |-> attempt]>>
          /\ UNCHANGED <<attempt, pc, outcome, errors, emb, queries, calls, ingest,
                         query_results, namespace>>
  /\ UNCHANGED <<feed, workers, adapter, index, agent>>

\* the invocation is over: its frame is discarded, only the index remains
Release ==
  /\ pc = "ended"
  /\ event = <<>> \/ outcome.kind = "returned" \/ dlq # <<>>
  /\ pc' = "idle"
  /\ event' = <<>> /\ rec' = 0
  /\ record_body' = <<>> /\ chunks' = <<>> /\ data' = <<>> /\ embeddings' = <<>>
  /\ query_results' = <<>> /\ namespace' = "none"
  /\ outcome' = None /\ errors' = <<>> /\ emb' = EmbIdle /\ upserts' = <<>>
  /\ queries' = {}
  /\ calls' = <<>>
  /\ question' = "" /\ ranked_results' = <<>> /\ state' = <<>>
  /\ trace' = <<>> /\ sent' = <<>>
  /\ attempt' = 0 /\ dlq' = <<>>
  /\ UNCHANGED <<feed, workers, adapter, index>>

\* get_secret(secret_arn=SECRET_ARN), before the try block
GetSecret ==
  /\ pc = "get_secret"
  /\ calls' = Append(calls, "secret")
  /\ \E ok \in BOOLEAN :
       IF ok THEN pc' = "next_record" /\ UNCHANGED <<outcome, errors>>
       ELSE Propagate("ClientError")
  /\ UNCHANGED <<feed, delivery, workers, adapter, index, emb, queries, ingest, query_results, namespace, agent>>

\* the for loop is exhausted: log success and return
HandlerReturn ==
  /\ pc = "next_record"
  /\ rec = Len(event)
  /\ pc' = "ended"
  /\ outcome' = Returned
  /\ UNCHANGED <<errors, feed, delivery, workers, adapter, index, emb, queries, calls, ingest, query_results,
                 namespace, agent>>

\* the next record: decode, parse, chunk
BeginRecord ==
  /\ pc = "next_record"
  /\ rec < Len(event)
  /\ rec' = rec + 1
  /\ upserts' = <<>>
  /\ data' = <<>>
  /\ LET r == event[rec + 1] IN
       IF ~r.json
       THEN Fail("JSONDecodeError") /\ UNCHANGED <<record_body, chunks, emb>>
       ELSE /\ record_body' = r.body
            /\ IF "event" \notin DOMAIN r.body
               THEN Fail("KeyError: event") /\ UNCHANGED <<chunks, emb>>
               ELSE /\ chunks' = get_chunks(r.body["event"])
                    /\ UNCHANGED <<outcome, errors>>
                    /\ IF enrichment_done(<<>>, get_chunks(r.body["event"]))
                       THEN pc' = "embed" /\ emb' = EmbCall("ingest", <<>>, "passage")
                       ELSE pc' = "enrich" /\ UNCHANGED emb
  /\ UNCHANGED <<feed, delivery, workers, adapter, index, queries, calls, event, embeddings, query_results,
                 namespace, agent>>

\* the chunks taken from the last one backwards
chunk_reversed(cs, idx) == cs[Len(cs) - idx]

\* for idx, chunk in enumerate(chunks)
chunk_at(cs, idx) == cs[idx + 1]

\* one iteration of the chunk loop: prompt, stream the context, append
Enrich ==
  /\ pc = "enrich"
  /\ calls' = Append(calls, "generate")
  /\ LET i == Len(data)
         chunk == chunk_at(chunks, i)
     IN \/ Fail("ClientError") /\ UNCHANGED <<data, emb>>
        \/ \E stream \in Streams :
             LET contextual_chunk == JoinNonEmpty(invoke_model(stream)) IN
             IF "event_id" \notin DOMAIN record_body
             THEN Fail("KeyError: event_id") /\ UNCHANGED <<data, emb>>
             ELSE LET d == Append(data, [id |-> ChunkId(record_body["event_id"], i),
                                         text |-> ContextualText(contextual_chunk, chunk)])
                  IN /\ data' = d
                     /\ UNCHANGED <<outcome, errors>>
                     /\ IF enrichment_done(d, chunks)
                        THEN /\ pc' = "embed"
                             /\ emb' = EmbCall("ingest", [k \in 1..Len(d) |-> d[k].text], "passage")
                        ELSE pc' = "enrich" /\ UNCHANGED emb
  /\ UNCHANGED <<feed, delivery, workers, adapter, index, queries, event, rec, record_body, chunks,
                 embeddings, upserts, query_results, namespace, agent>>

IngestEmbedPcs == {"embed", "ns_embed"}
AgentEmbedPcs == {"route_embed", "context_embed"}

\* one iteration of the retry loop of get_embeddings
EmbedAttempt ==
  /\ pc \in IngestEmbedPcs \cup AgentEmbedPcs
  /\ emb.status = "running"
  /\ LoopContinues(emb)
  /\ calls' = Append(calls, "embed")
  /\ \E ok \in BOOLEAN : emb' = IF ok THEN EmbedOk(emb) ELSE EmbedFail(emb)
  /\ UNCHANGED <<feed, delivery, workers, adapter, index, pc, outcome, errors, queries, ingest, query_results,
                 namespace, agent>>

\* the loop of get_embeddings is over: raise RuntimeError or return
EmbedReturn ==
  /\ pc \in IngestEmbedPcs \cup AgentEmbedPcs
  /\ emb.status = "running"
  /\ ~LoopContinues(emb)
  /\ emb' = EmbedExit(emb)
  /\ IF EmbedExit(emb).status = "returned" THEN UNCHANGED <<pc, outcome, errors>>
     ELSE IF pc \in IngestEmbedPcs THEN Fail("RuntimeError")
     ELSE Propagate("RuntimeError")
  /\ UNCHANGED <<feed, delivery, workers, adapter, index, queries, calls, ingest, query_results, namespace, agent>>

\* the passage vectors are back; get_namespace(summary) embeds the summary
Classify ==
  /\ pc = "embed"
  /\ emb.status = "returned"
  /\ embeddings' = emb.value
  /\ IF "summary" \notin DOMAIN record_body
     THEN Fail("KeyError: summary") /\ UNCHANGED emb
     ELSE /\ pc' = "ns_embed"
          /\ emb' = EmbCall("ingest", <<record_body["summary"]>>, "query")
          /\ UNCHANGED <<outcome, errors>>
  /\ UNCHANGED <<feed, delivery, workers, adapter, index, queries, calls, event, rec, record_body, chunks,
                 data, upserts, query_results, namespace, agent>>

\* get_namespace: similarity search of the summary vector, top 5
NsQuery ==
  /\ pc = "ns_embed"
  /\ emb.status = "returned"
  /\ calls' = Append(calls, "query")
  /\ queries' = queries \cup {[by |-> "ingest.get_namespace", kind |-> "vector",
                               namespace |-> ingest_search_namespace]}
  /\ \E ok \in BOOLEAN :
       IF ok
       THEN /\ query_results' = QueryByVector(index, ingest_search_namespace,
                                              emb.value[Len(emb.value)], ROUTER_TOP_K)
            /\ pc' = "ns_lookup"
            /\ UNCHANGED <<outcome, errors>>
       ELSE Fail("PineconeException") /\ UNCHANGED query_results
  /\ UNCHANGED <<feed, delivery, workers, adapter, index, emb, ingest, namespace, agent>>

\* get_namespace: point lookup of the best match, return its namespace
NsLookup ==
  /\ pc = "ns_lookup"
  /\ IF query_results = <<>>
     THEN Fail("IndexError") /\ UNCHANGED <<namespace, queries, calls>>
     ELSE /\ calls' = Append(calls, "query")
          /\ queries' = queries \cup {[by |-> "ingest.get_namespace", kind |-> "id",
                                       namespace |-> ingest_lookup_namespace]}
          /\ \E ok \in BOOLEAN :
               LET metadata == QueryById(index, ingest_lookup_namespace, query_results[1].id) IN
               IF ~ok THEN Fail("PineconeException") /\ UNCHANGED namespace
               ELSE IF metadata = <<>> THEN Fail("IndexError") /\ UNCHANGED namespace
               ELSE IF ~namespace_field(metadata[1].metadata).ok
                    THEN Fail("KeyError: namespace") /\ UNCHANGED namespace
               ELSE /\ namespace' = namespace_field(metadata[1].metadata).value
                    /\ pc' = "upsert"
                    /\ UNCHANGED <<outcome, errors>>
  /\ UNCHANGED <<feed, delivery, workers, adapter, index, emb, ingest, query_results, agent>>

\* assemble the records and upsert them in one call
UpsertRecords ==
  /\ pc = "upsert"
  /\ IF Len(data) > 0 /\ Len(embeddings) > 0 /\ "updated_at" \notin DOMAIN record_body
     THEN Fail("KeyError: updated_at") /\ UNCHANGED <<index, upserts, calls>>
     ELSE LET records == IF Len(data) > 0 /\ Len(embeddings) > 0
                         THEN AssembleRecords(record_body, data, embeddings)
                         ELSE <<>>
          IN /\ upserts' = Append(upserts, [namespace |-> upsert_namespace(namespace),
                                            records |-> records])
             /\ calls' = Append(calls, "upsert")
             /\ \E ok \in BOOLEAN :
                  IF ok
                  THEN /\ index' = Upsert(index, upsert_namespace(namespace), records)
                       /\ pc' = "next_record"
                       /\ UNCHANGED <<outcome, errors>>
                  ELSE Fail("PineconeException") /\ UNCHANGED index
  /\ UNCHANGED <<feed, delivery, workers, adapter, emb, queries, event, rec, record_body, chunks, data,
                 embeddings, query_results, namespace, agent>>

(********************** query side: the answer graph ***********************)
\* an edge map that wires the tech label to the world retriever
EdgeMapCrossed == [l \in Topical |->
                     CASE l = "tech" -> "world_retriever" [] l = "world" -> "tech_retriever"
                       [] l = "sports" -> "sports_retriever" [] OTHER -> "business_retriever"]

\* the conditional edge map of build_graph: label -> retriever node
EdgeMap == [l \in Topical |->
              CASE l = "tech" -> "tech_retriever" [] l = "world" -> "world_retriever"
                [] l = "sports" -> "sports_retriever" [] OTHER -> "business_retriever"]

\* the namespace each retriever node passes to get_context
retriever_namespace(node) ==
  CASE node = "tech_retriever" -> "tech" [] node = "world_retriever" -> "world"
    [] node = "sports_retriever" -> "sports" [] OTHER -> "business"

\* an edge that leads generate_answer back to itself
next_node_cyclic(node) == "generate_answer"

\* the static edges of build_graph: retrievers -> generate_answer -> END
next_node(node) == IF node = "generate_answer" THEN "END" ELSE "generate_answer"

\* a point lookup aimed at a topical partition
agent_lookup_topical == "tech"

\* the namespace of the router searches of the agent's get_namespace
agent_search_namespace == "router"
agent_lookup_namespace == "router"

\* a lookup of the candidate the reranker placed last
context_last(ranked) == ranked[Len(ranked)].document.id

\* ranked_results.data[0]["document"]["id"] in get_context
context_top(ranked) == ranked[1].document.id

\* the namespace of the similarity search of get_context
context_search_namespace(ns) == ns

\* a point lookup of the context that goes to the router partition
context_lookup_router(ns) == "router"

\* the namespace of the point lookup of get_context
context_lookup_namespace(ns) == ns

\* the fragments the generation model produces for a prompt, in order
AnswerFragments(q, context) ==
  << <<[question |-> q, context |-> context, part |-> 1]>>,
     <<[question |-> q, context |-> context, part |-> 2]>> >>

\* runnable.invoke with StrOutputParser: the complete answer as one text
Answer(q, context) ==
  AnswerFragments(q, context)[1] \o AnswerFragments(q, context)[2]

\* a handler that hands every question to the graph
no_question_unchecked(q) == FALSE

\* if not question:
no_question(q) == q = ""

\* POST /api/chat: handle_chat, then the first step of run_agent's generator
Chat ==
  /\ pc = "idle"
  /\ \E q \in Questions :
       /\ question' = q
       /\ IF no_question(q)
          THEN /\ sent' = <<"Please enter a question!">>
               /\ pc' = "ended"
               /\ outcome' = Returned
               /\ UNCHANGED <<state, trace, errors>>
          ELSE /\ state' = [question |-> q]
               /\ trace' = <<"route_question">>
               /\ pc' = "route_secret"
               /\ UNCHANGED <<sent, outcome, errors>>
  /\ UNCHANGED <<feed, delivery, workers, adapter, index, emb, queries, calls, ingest, query_results,
                 namespace, ranked_results>>

\* get_secret() at the top of get_namespace and of get_context
AgentSecret ==
  /\ pc \in {"route_secret", "context_secret"}
  /\ calls' = Append(calls, "secret")
  /\ \E ok \in BOOLEAN :
       IF ok
       THEN /\ pc' = IF pc = "route_secret" THEN "route_embed" ELSE "context_embed"
            /\ emb' = EmbCall("agent", <<state["question"]>>, "query")
            /\ UNCHANGED <<outcome, errors>>
       ELSE Propagate("TypeError") /\ UNCHANGED emb
  /\ UNCHANGED <<feed, delivery, workers, adapter, index, queries, ingest, query_results, namespace, agent>>

\* the similarity search of get_namespace (top 5) or get_context (top 10)
AgentQuery ==
  /\ pc \in AgentEmbedPcs
  /\ emb.status = "returned"
  /\ calls' = Append(calls, "query")
  /\ LET routing == pc = "route_embed"
         ns == IF routing THEN agent_search_namespace
               ELSE context_search_namespace(retriever_namespace(trace[Len(trace)]))
     IN /\ queries' = queries \cup
                        {[by |-> IF routing THEN "agent.get_namespace" ELSE "agent.get_context",
                          kind |-> "vector", namespace |-> ns]}
        /\ \E ok \in BOOLEAN :
             IF ok
             THEN /\ query_results' = QueryByVector(index, ns, emb.value,
                                         IF routing THEN ROUTER_TOP_K ELSE CONTEXT_TOP_K)
                  /\ pc' = IF routing THEN "route_rerank" ELSE "context_rerank"
                  /\ UNCHANGED <<outcome, errors>>
             ELSE Propagate("PineconeException") /\ UNCHANGED query_results
  /\ UNCHANGED <<feed, delivery, workers, adapter, index, emb, ingest, namespace, agent>>

\* pc.inference.rerank of the matches, top 3
AgentRerank ==
  /\ pc \in {"route_rerank", "context_rerank"}
  /\ IF \E k \in 1..Len(query_results) : "text" \notin DOMAIN query_results[k].metadata
     THEN Propagate("KeyError: text") /\ UNCHANGED <<ranked_results, calls>>
     ELSE /\ calls' = Append(calls, "rerank")
          /\ \E ok \in BOOLEAN :
               IF ok
               THEN /\ ranked_results' = Rerank(state["question"], query_results, RERANK_TOP_N)
                    /\ pc' = IF pc = "route_rerank" THEN "route_lookup" ELSE "context_lookup"
                    /\ UNCHANGED <<outcome, errors>>
               ELSE Propagate("PineconeApiException") /\ UNCHANGED ranked_results
  /\ UNCHANGED <<feed, delivery, workers, adapter, index, emb, queries, ingest, query_results, namespace,
                 question, state, trace, sent>>

\* get_namespace: look the best reranked id up, return its namespace;
\* the conditional edge from START then selects the retriever
RouteLookup ==
  /\ pc = "route_lookup"
  /\ IF ranked_results = <<>>
     THEN Propagate("IndexError") /\ UNCHANGED <<namespace, queries, calls, trace>>
     ELSE /\ calls' = Append(calls, "query")
          /\ queries' = queries \cup {[by |-> "agent.get_namespace", kind |-> "id",
                                       namespace |-> agent_lookup_namespace]}
          /\ \E ok \in BOOLEAN :
               LET metadata == QueryById(index, agent_lookup_namespace,
                                         ranked_results[1].document.id) IN
               IF ~ok THEN Propagate("PineconeException") /\ UNCHANGED <<namespace, trace>>
               ELSE IF metadata = <<>>
                    THEN Propagate("IndexError") /\ UNCHANGED <<namespace, trace>>
               ELSE IF ~namespace_field(metadata[1].metadata).ok
                    THEN Propagate("KeyError: namespace") /\ UNCHANGED <<namespace, trace>>
               ELSE /\ namespace' = namespace_field(metadata[1].metadata).value
                    /\ IF namespace_field(metadata[1].metadata).value \in DOMAIN EdgeMap
                       THEN /\ trace' = Append(trace,
                                          EdgeMap[namespace_field(metadata[1].metadata).value])
                            /\ pc' = "context_secret"
                            /\ UNCHANGED <<outcome, errors>>
                       ELSE Propagate("KeyError: branch") /\ UNCHANGED trace
  /\ UNCHANGED <<feed, delivery, workers, adapter, index, emb, ingest, query_results, question,
                 ranked_results, state, sent>>

\* get_context: look the best reranked id up, return its text; the retriever
\* node returns {question, context} and the graph moves to generate_answer
ContextLookup ==
  /\ pc = "context_lookup"
  /\ IF ranked_results = <<>>
     THEN Propagate("IndexError") /\ UNCHANGED <<state, queries, calls, trace>>
     ELSE LET ns == context_lookup_namespace(retriever_namespace(trace[Len(trace)])) IN
          /\ calls' = Append(calls, "query")
          /\ queries' = queries \cup {[by |-> "agent.get_context", kind |-> "id",
                                       namespace |-> ns]}
          /\ \E ok \in BOOLEAN :
               LET metadata == QueryById(index, ns, context_top(ranked_results)) IN
               IF ~ok THEN Propagate("PineconeException") /\ UNCHANGED <<state, trace>>
               ELSE IF metadata = <<>>
                    THEN Propagate("IndexError") /\ UNCHANGED <<state, trace>>
               ELSE IF "text" \notin DOMAIN metadata[1].metadata
                    THEN Propagate("KeyError: text") /\ UNCHANGED <<state, trace>>
               ELSE /\ state' = [question |-> state["question"],
                                 context |-> metadata[1].metadata["text"]]
                    /\ trace' = Append(trace, next_node(trace[Len(trace)]))
                    /\ pc' = "generate"
                    /\ UNCHANGED <<outcome, errors>>
  /\ UNCHANGED <<feed, delivery, workers, adapter, index, emb, ingest, query_results, namespace, question,
                 ranked_results, sent>>

\* generate_answer: runnable.invoke returns the complete answer
Generate ==
  /\ pc = "generate"
  /\ calls' = Append(calls, "generate")
  /\ \E ok \in BOOLEAN :
       IF ok
       THEN /\ state' = [question |-> state["question"],
                         answer |-> Answer(state["question"], state["context"]),
                         context |-> state["context"]]
            /\ IF next_node("generate_answer") = "END"
               THEN pc' = "emit" /\ UNCHANGED trace
               ELSE pc' = "generate" /\ trace' = Append(trace, next_node("generate_answer"))
            /\ UNCHANGED <<outcome, errors>>
       ELSE Propagate("ClientError") /\ UNCHANGED <<state, trace>>
  /\ UNCHANGED <<feed, delivery, workers, adapter, index, emb, queries, ingest, query_results, namespace,
                 question, ranked_results, sent>>

\* graph.stream yields the values holding the answer, run_agent yields it, END
Emit ==
  /\ pc = "emit"
  /\ sent' = IF "answer" \in DOMAIN state THEN Append(sent, state["answer"]) ELSE sent
  /\ trace' = Append(trace, next_node("generate_answer"))
  /\ pc' = "ended"
  /\ outcome' = Returned
  /\ UNCHANGED <<errors, feed, delivery, workers, adapter, index, emb, queries, calls, ingest, query_results,
                 namespace, question, ranked_results, state>>

(**************************** specification ********************************)
\* no generator is being followed
AdapterIdle ==
  [stream |-> <<>>, taken |-> 0, yielded |-> <<>>, status |-> "idle", context |-> <<>>]

Init ==
  /\ \E d \in Deployments :
       /\ feed = d[1]
       /\ index = [ns \in Namespaces |-> IF ns = ROUTER THEN d[2] ELSE {}]
  /\ pc = "idle"
  /\ event = <<>> /\ rec = 0
  /\ record_body = <<>> /\ chunks = <<>> /\ data = <<>> /\ embeddings = <<>>
  /\ query_results = <<>> /\ namespace = "none"
  /\ outcome = None /\ errors = <<>> /\ emb = EmbIdle /\ upserts = <<>>
  /\ queries = {}
  /\ calls = <<>>
  /\ question = "" /\ ranked_results = <<>> /\ state = <<>>
  /\ trace = <<>> /\ sent = <<>>
  /\ attempt = 0 /\ dlq = <<>>
  /\ workers = <<>>
  /\ adapter = AdapterIdle

Next ==
  \/ Deliver
  \/ OnFailure
  \/ Release
  \/ GetSecret
  \/ HandlerReturn
  \/ BeginRecord
  \/ Enrich
  \/ EmbedAttempt
  \/ EmbedReturn
  \/ Classify
  \/ NsQuery
  \/ NsLookup
  \/ UpsertRecords
  \/ Chat
  \/ AgentSecret
  \/ AgentQuery
  \/ AgentRerank
  \/ RouteLookup
  \/ ContextLookup
  \/ Generate
  \/ Emit

Spec == Init /\ [][Next]_vars

TypeOK ==
  /\ pc \in {"idle", "ended", "get_secret", "next_record", "enrich", "embed",
             "ns_embed", "ns_lookup", "upsert", "route_secret", "route_embed",
             "route_rerank", "route_lookup", "context_secret", "context_embed",
             "context_rerank", "context_lookup", "generate", "emit"}
  /\ outcome.kind \in {"none", "returned", "raised"}

(******************* concurrent ingestion workers **************************)
\* The event source mapping runs several handler invocations in parallel
\* (parallelization_factor); here they all hold the same DocumentEvent, as
\* after a redelivery or a second put of the event. Every worker runs the
\* try block of lambda_handler on its own frame; the index is shared.
Workers == 1..MaxWorkers

\* the variables of the single-invocation specification, idle here
sequential == <<feed, pc, outcome, errors, emb, queries, calls, ingest,
                query_results, namespace, agent, delivery, adapter>>

\* the events the workers may share
SharedEvents == {EvA, EvB}

\* the frame of an invocation after json.loads and get_chunks
WorkerStart(body) ==
  [pc |-> IF enrichment_done(<<>>, get_chunks(body["event"])) THEN "embed" ELSE "enrich",
   record_body |-> body, chunks |-> get_chunks(body["event"]), data |-> <<>>,
   embeddings |-> <<>>, query_results |-> <<>>, namespace |-> "none",
   upserted |-> <<>>, outcome |-> None]

\* the frame of an invocation that is over
WorkerDone(f, records, out) ==
  [pc |-> "ended", record_body |-> f.record_body, chunks |-> <<>>, data |-> <<>>,
   embeddings |-> <<>>, query_results |-> <<>>, namespace |-> "none",
   upserted |-> records, outcome |-> out]

\* except Exception as e: raise e, in the frame of worker w
WorkerRaise(w, exc) ==
  workers' = [workers EXCEPT ![w] = WorkerDone(@, <<>>, except_clause(exc).outcome)]

\* the records an earlier sequential ingestion of the event stored
StoredBefore(body) ==
  LET c == get_chunks(body["event"])
      d == [k \in 1..Len(c) |-> [id |-> ChunkId(body["event_id"], k - 1),
                                  text |-> ContextualText(<<"c0">>, c[k])]]
  IN  AssembleRecords(body, d, EmbedAll([k \in 1..Len(d) |-> d[k].text], "passage"))

\* the namespace a sequential ingestion of the event upserts into
RoutedTo(ix, body) ==
  LET hits == QueryByVector(ix, ingest_search_namespace,
                            EmbedOne(body["summary"], "query"), ROUTER_TOP_K)
  IN  namespace_field(QueryById(ix, ingest_lookup_namespace, hits[1].id)[1].metadata).value

\* one iteration of the chunk loop of worker w
WorkerEnrich(w) ==
  LET f == workers[w] IN
  /\ f.pc = "enrich"
  /\ \/ WorkerRaise(w, "ClientError")
     \/ \E stream \in Streams :
          LET d == Append(f.data,
                     [id |-> ChunkId(f.record_body["event_id"], Len(f.data)),
                      text |-> ContextualText(JoinNonEmpty(invoke_model(stream)),
                                              f.chunks[Len(f.data) + 1])])
          IN workers' = [workers EXCEPT ![w].data = d,
                           ![w].pc = IF enrichment_done(d, f.chunks) THEN "embed" ELSE "enrich"]
  /\ UNCHANGED <<sequential, index>>

\* get_embeddings of the contextual chunks: all vectors, or RuntimeError
WorkerEmbed(w) ==
  LET f == workers[w] IN
  /\ f.pc = "embed"
  /\ \/ WorkerRaise(w, "RuntimeError")
     \/ workers' = [workers EXCEPT
                      ![w].embeddings = EmbedAll([k \in 1..Len(f.data) |-> f.data[k].text],
                                                 "passage"),
                      ![w].pc = "ns_query"]
  /\ UNCHANGED <<sequential, index>>

\* get_namespace: embed the summary and search the router partition
WorkerNsQuery(w) ==
  LET f == workers[w] IN
  /\ f.pc = "ns_query"
  /\ \/ \E exc \in {"RuntimeError", "PineconeException"} : WorkerRaise(w, exc)
     \/ workers' = [workers EXCEPT
                      ![w].query_results =
                         QueryByVector(index, ingest_search_namespace,
                                       EmbedOne(f.record_body["summary"], "query"),
                                       ROUTER_TOP_K),
                      ![w].pc = "ns_lookup"]
  /\ UNCHANGED <<sequential, index>>

\* get_namespace: point lookup of the best match, return its namespace
WorkerNsLookup(w) ==
  LET f == workers[w] IN
  /\ f.pc = "ns_lookup"
  /\ IF f.query_results = <<>> THEN WorkerRaise(w, "IndexError")
     ELSE LET metadata == QueryById(index, ingest_lookup_namespace, f.query_results[1].id) IN
          \/ WorkerRaise(w, "PineconeException")
          \/ IF metadata = <<>> THEN WorkerRaise(w, "IndexError")
             ELSE IF ~namespace_field(metadata[1].metadata).ok
                  THEN WorkerRaise(w, "KeyError: namespace")
             ELSE workers' = [workers EXCEPT
                                ![w].namespace = namespace_field(metadata[1].metadata).value,
                                ![w].pc = "upsert"]
  /\ UNCHANGED <<sequential, index>>

\* assemble the records and upsert them in one call; the invocation returns
WorkerUpsert(w) ==
  LET f == workers[w]
      records == IF Len(f.data) > 0 /\ Len(f.embeddings) > 0
                 THEN AssembleRecords(f.record_body, f.data, f.embeddings)
                 ELSE <<>>
  IN
  /\ f.pc = "upsert"
  /\ \/ WorkerRaise(w, "PineconeException") /\ UNCHANGED index
     \/ /\ index' = Upsert(index, upsert_namespace(f.namespace), records)
        /\ workers' = [workers EXCEPT ![w] = WorkerDone(@, records, Returned)]
  /\ UNCHANGED sequential

InitWorkers ==
  /\ \E body \in SharedEvents, redelivery \in BOOLEAN :
       /\ workers = [w \in Workers |-> WorkerStart(body)]
       /\ index = [ns \in Namespaces |->
                     IF ns = ROUTER THEN RouterLabelled
                     ELSE IF redelivery
                             /\ ns = RoutedTo([n \in Namespaces |-> RouterLabelled], body)
                          THEN {StoredBefore(body)[k] : k \in 1..Len(StoredBefore(body))}
                          ELSE {}]
  /\ feed = {}
  /\ pc = "idle"
  /\ event = <<>> /\ rec = 0
  /\ record_body = <<>> /\ chunks = <<>> /\ data = <<>> /\ embeddings = <<>>
  /\ query_results = <<>> /\ namespace = "none"
  /\ outcome = None /\ errors = <<>> /\ emb = EmbIdle /\ upserts = <<>>
  /\ queries = {}
  /\ calls = <<>>
  /\ question = "" /\ ranked_results = <<>> /\ state = <<>>
  /\ trace = <<>> /\ sent = <<>>
  /\ attempt = 0 /\ dlq = <<>>
  /\ adapter = AdapterIdle

NextWorkers ==
  \E w \in Workers :
    \/ WorkerEnrich(w)
    \/ WorkerEmbed(w)
    \/ WorkerNsQuery(w)
    \/ WorkerNsLookup(w)
    \/ WorkerUpsert(w)

SpecWorkers == InitWorkers /\ [][NextWorkers]_vars

(********************* the generation stream adapter ***********************)
\* One call of BedrockStreamAdapter.invoke_model on a response stream, and
\* the "".join of lambda_handler that consumes the generator. The events of
\* the stream are taken one at a time, as the for loop of the generator does.
AdapterStart(stream) ==
  [stream |-> stream, taken |-> 0, yielded |-> <<>>, status |-> "streaming",
   context |-> <<>>]

\* the event the for loop takes next
AdapterNext == adapter.stream[adapter.taken + 1]

AdapterOpen == adapter.status = "streaming" /\ adapter.taken < Len(adapter.stream)

\* if chunk["type"] == "content_block_delta": yield chunk["delta"]["text"]
AdapterYield ==
  /\ AdapterOpen
  /\ AdapterNext.type = "content_block_delta"
  /\ adapter' = [adapter EXCEPT !.taken = @ + 1,
                                !.yielded = Append(@, AdapterNext.text)]
  /\ UNCHANGED <<index, workers, feed, pc, outcome, errors, emb, queries, calls,
                 ingest, query_results, namespace, agent, delivery>>

\* elif chunk["type"] == "message_delta": if "stop_reason" ...: break
AdapterBreak ==
  /\ AdapterOpen
  /\ AdapterNext.type # "content_block_delta"
  /\ stops(AdapterNext)
  /\ adapter' = [adapter EXCEPT !.taken = @ + 1, !.status = "closed"]
  /\ UNCHANGED <<index, workers, feed, pc, outcome, errors, emb, queries, calls,
                 ingest, query_results, namespace, agent, delivery>>

\* any other event: the loop goes on to the next one
AdapterSkip ==
  /\ AdapterOpen
  /\ AdapterNext.type # "content_block_delta"
  /\ ~stops(AdapterNext)
  /\ adapter' = [adapter EXCEPT !.taken = @ + 1]
  /\ UNCHANGED <<index, workers, feed, pc, outcome, errors, emb, queries, calls,
                 ingest, query_results, namespace, agent, delivery>>

\* the response body has no more events: the for loop ends
AdapterExhausted ==
  /\ adapter.status = "streaming"
  /\ adapter.taken = Len(adapter.stream)
  /\ adapter' = [adapter EXCEPT !.status = "closed"]
  /\ UNCHANGED <<index, workers, feed, pc, outcome, errors, emb, queries, calls,
                 ingest, query_results, namespace, agent, delivery>>

\* except ClientError as e: raise e -- the join never completes
AdapterRaise ==
  /\ adapter.status = "streaming"
  /\ adapter' = [adapter EXCEPT !.status = "raised"]
  /\ UNCHANGED <<index, workers, feed, pc, outcome, errors, emb, queries, calls,
                 ingest, query_results, namespace, agent, delivery>>

\* contextual_chunk = "".join(response for response in response_stream if response)
AdapterJoin ==
  /\ adapter.status = "closed"
  /\ adapter' = [adapter EXCEPT !.status = "joined",
                                !.context = JoinNonEmpty(adapter.yielded)]
  /\ UNCHANGED <<index, workers, feed, pc, outcome, errors, emb, queries, calls,
                 ingest, query_results, namespace, agent, delivery>>

InitAdapter ==
  /\ \E stream \in AdapterStreams : adapter = AdapterStart(stream)
  /\ feed = {}
  /\ index = [ns \in Namespaces |-> IF ns = ROUTER THEN RouterLabelled ELSE {}]
  /\ pc = "idle"
  /\ event = <<>> /\ rec = 0
  /\ record_body = <<>> /\ chunks = <<>> /\ data = <<>> /\ embeddings = <<>>
  /\ query_results = <<>> /\ namespace = "none"
  /\ outcome = None /\ errors = <<>> /\ emb = EmbIdle /\ upserts = <<>>
  /\ queries = {}
  /\ calls = <<>>
  /\ question = "" /\ ranked_results = <<>> /\ state = <<>>
  /\ trace = <<>> /\ sent = <<>>
  /\ attempt = 0 /\ dlq = <<>>
  /\ workers = <<>>

NextAdapter ==
  \/ AdapterYield
  \/ AdapterBreak
  \/ AdapterSkip
  \/ AdapterExhausted
  \/ AdapterRaise
  \/ AdapterJoin

SpecAdapter == InitAdapter /\ [][NextAdapter]_vars

(******************************* claims ************************************)
EmbDone == emb.status \in {"returned", "raised"}
Attempts == 1..Len(emb.attempts)
AllFailed == Len(emb.attempts) = MAX_ATTEMPTS /\ \A k \in Attempts : ~emb.attempts[k]
FailedThenSucceeded ==
  \E m, n \in Attempts : m < n /\ ~emb.attempts[m] /\ emb.attempts[n]

\* (C1) A get_embeddings call in which an attempt fails with a rate-limit
\* exception and a later attempt succeeds returns the vectors of a
\* successful attempt instead of raising.
C1_TransientFailureStillReturns ==
  (EmbDone /\ FailedThenSucceeded)
    => (emb.status = "returned" /\ emb.attempts[emb.from + 1])

\* (C2) When all five attempts fail get_embeddings raises RuntimeError and
\* returns no value; whenever it returns, the value is the complete result
\* of an attempt that no failed attempt followed.
C2_ExhaustionRaises ==
  EmbDone =>
    /\ AllFailed => (emb.status = "raised" /\ emb.value = <<>>
                     /\ outcome = Raised("RuntimeError"))
    /\ emb.status = "returned" =>
         /\ emb.attempts[emb.from + 1]
         /\ \A k \in Attempts : k > emb.from + 1 => emb.attempts[k]
         /\ emb.value = IF emb.version = "agent"
                        THEN [of |-> emb.texts[1], input_type |-> emb.input_type]
                        ELSE [k \in 1..Len(emb.texts) |->
                                [of |-> emb.texts[k], input_type |-> emb.input_type]]

C2_Witness == emb.status = "raised" /\ AllFailed /\ outcome.kind = "raised"

\* (C3) get_embeddings calls the embedding service at most five times and
\* issues attempt n+1 only when attempt n failed: no call follows a
\* successful attempt, a first-attempt success costs one call.
C3_RetryOnlyAfterFailure ==
  /\ Len(emb.attempts) <= 5
  /\ \A k \in Attempts : k < Len(emb.attempts) => ~emb.attempts[k]
  /\ (EmbDone /\ emb.attempts[1]) => Len(emb.attempts) = 1

\* (C4) After a failed attempt n (from 0) at least 2^n seconds pass before
\* attempt n+1 is issued: the waits between five failing attempts are
\* 1, 2, 4 and 8 seconds.
C4_BackoffBounds ==
  /\ \A n \in Attempts :
       (n < Len(emb.attempts) /\ ~emb.attempts[n])
         => emb.issuedAt[n + 1] - emb.issuedAt[n] >= <<1, 2, 4, 8>>[n]
  /\ (Len(emb.attempts) = 5 /\ \A k \in 1..4 : ~emb.attempts[k])
       => emb.issuedAt = <<0, 1, 3, 7, 15>>

C4_Witness ==
  /\ Len(emb.issuedAt) = 5
  /\ emb.issuedAt[5] = 15
  /\ emb.version = "agent"

\* (C5) When a stage fails while lambda_handler processes a record, the
\* invocation ends by raising that exception: the failure is not swallowed
\* and the handler does not return normally afterwards.
C5_FailurePropagates ==
  /\ (rec >= 1 /\ errors # <<>>)
       => (pc = "ended" /\ Len(errors) = 1 /\ outcome = Raised(errors[1]))
  /\ (event # <<>> /\ outcome.kind = "returned") => errors = <<>>

C5_Witness ==
  /\ pc = "ended" /\ rec >= 1
  /\ errors = <<"PineconeException">>
  /\ calls[Len(calls)] = "upsert"

RequiredFields == {"event", "summary", "event_id", "updated_at"}
Malformed(r) == ~r.json \/ \E k \in RequiredFields : k \notin DOMAIN r.body
MalformedErrors ==
  {"JSONDecodeError"} \cup {"KeyError: event", "KeyError: summary",
                            "KeyError: event_id", "KeyError: updated_at"}
RejectedAsMalformed == event # <<>> /\ errors # <<>> /\ errors[1] \in MalformedErrors

\* (C6, as claimed) A malformed record is fatal for that record only: the
\* other records of the batch, those after it included, are still processed.
C6_SiblingsStillProcessed ==
  (pc = "ended" /\ RejectedAsMalformed) => rec = Len(event)

\* (C6, amended) A record rejected as malformed is fatal for the whole
\* invocation: the handler raises at that record without upserting it, and
\* the loop takes no further record of the batch.
C6_MalformedAbortsBatch ==
  RejectedAsMalformed =>
    /\ pc = "ended"
    /\ outcome = Raised(errors[1])
    /\ rec >= 1 /\ Malformed(event[rec])
    /\ upserts = <<>>

C6_Witness ==
  /\ pc = "ended"
  /\ errors = <<"JSONDecodeError">>
  /\ rec < Len(event)

StoredIds(ix) == [ns \in Namespaces |-> {r.id : r \in ix[ns]}]
StoredCount(ix) == [ns \in Namespaces |-> Cardinality(ix[ns])]
EndsWith(text, chunk) ==
  /\ Len(text) >= Len(chunk)
  /\ SubSeq(text, Len(text) - Len(chunk) + 1, Len(text)) = chunk

\* the records of the event being processed are already stored
AlreadyIngested ==
  \A k \in 1..Len(chunks) :
    \E r \in index[namespace] :
      /\ r.id = <<record_body["event_id"], k - 1>>
      /\ r.metadata["event_id"] = record_body["event_id"]
      /\ r.metadata["summary"] = record_body["summary"]
      /\ r.metadata["updated_at"] = record_body["updated_at"]
      /\ EndsWith(r.metadata["text"], chunks[k])

\* (C7) Ingesting again a DocumentEvent whose records are stored leaves every
\* namespace with the same record ids and the same record count: the
\* repeat overwrites by id and creates no duplicate.
C7_ReingestIdempotent ==
  [][(pc = "upsert" /\ pc' = "next_record" /\ AlreadyIngested)
       => /\ StoredIds(index') = StoredIds(index)
          /\ StoredCount(index') = StoredCount(index)
          /\ \A ns \in Namespaces :
               Cardinality(StoredIds(index')[ns]) = StoredCount(index')[ns]]_vars

C7_Witness ==
  /\ event = <<Json(EvA), Json(EvA)>>
  /\ rec = 2
  /\ pc = "next_record"
  /\ Len(upserts) = 1

\* (C8) A successful ingestion of an event of N chunks issues exactly one
\* upsert, into the namespace the classifier returned, with exactly N
\* records of ids event_id-0 .. event_id-(N-1) whose metadata holds the
\* event's event_id, summary and updated_at.
C8_OneUpsertPerEvent ==
  (pc = "next_record" /\ rec >= 1) =>
    LET body == event[rec].body
        N == Len(get_chunks(body["event"]))
    IN /\ Len(upserts) = 1
       /\ upserts[1].namespace = namespace
       /\ \E ref \in index["router"] :
            "namespace" \in DOMAIN ref.metadata /\ ref.metadata["namespace"] = namespace
       /\ Len(upserts[1].records) = N
       /\ \A i \in 0..(N - 1) :
            LET r == upserts[1].records[i + 1]
            IN /\ r.id = <<body["event_id"], i>>
               /\ r.metadata["event_id"] = body["event_id"]
               /\ r.metadata["summary"] = body["summary"]
               /\ r.metadata["updated_at"] = body["updated_at"]
               /\ r \in index[namespace]

C8_Witness ==
  /\ pc = "next_record"
  /\ Len(upserts) = 1
  /\ Len(upserts[1].records) = 2
  /\ upserts[1].namespace = "tech"

Classifiers == {"ingest.get_namespace", "agent.get_namespace"}

\* (C9) Every index query of the Namespace Classifier, the similarity search
\* and the point lookup, at ingestion and at query time, targets "router".
C9_ClassifierQueriesRouter ==
  \A q \in queries : q.by \in Classifiers => q.namespace = "router"

C9_Witness ==
  {q.kind : q \in {x \in queries : x.by = "agent.get_namespace"}} = {"vector", "id"}

Winner == {r \in index["router"] : query_results # <<>> /\ r.id = query_results[1].id}
RouterLabels ==
  {r.metadata["namespace"] : r \in {x \in index["router"] : "namespace" \in DOMAIN x.metadata}}
IngestRun == event # <<>>
AgentRun == trace # <<>>
Count(log, c) == Cardinality({k \in 1..Len(log) : log[k] = c})
ContextQueries == {q \in queries : q.by = "agent.get_context"}
\* get_namespace ended without a label: no match, or no namespace metadata
NoRoute ==
  /\ pc = "ended"
  /\ errors # <<>>
  /\ errors[Len(errors)] \in {"IndexError", "KeyError: namespace"}
  /\ IngestRun \/ trace = <<"route_question">>

\* (C11) When the router lookup yields no match or the winning reference
\* record has no namespace metadata, get_namespace raises and the unit of
\* work fails: no upsert at ingestion, no retrieval and no generation at
\* query time, and no namespace is substituted: an upsert or a retriever
\* only ever uses the label a router reference record carries.
C11_NoRouteIsFatal ==
  /\ NoRoute =>
        /\ outcome = Raised(errors[Len(errors)])
        /\ upserts = <<>>
        /\ AgentRun => /\ namespace = "none"
                       /\ ContextQueries = {}
                       /\ Count(calls, "generate") = 0
                       /\ sent = <<>>
  /\ (IngestRun /\ upserts # <<>>) =>
        \E r \in Winner :
          /\ "namespace" \in DOMAIN r.metadata
          /\ \A k \in 1..Len(upserts) : upserts[k].namespace = r.metadata["namespace"]
  /\ (AgentRun /\ Len(trace) >= 2) => namespace \in RouterLabels
  /\ (AgentRun /\ (ContextQueries # {} \/ Count(calls, "generate") > 0)) => Len(trace) >= 2

C11_Witness ==
  /\ NoRoute /\ IngestRun
  /\ errors = <<"KeyError: namespace">>
  /\ Winner # {}

Retrievers == {"tech_retriever", "world_retriever", "sports_retriever", "business_retriever"}
RanRetrievers == {k \in 1..Len(trace) : trace[k] \in Retrievers}
IsPrefix(p, q) == Len(p) <= Len(q) /\ SubSeq(q, 1, Len(p)) = p
RetrieverOf(label) ==
  CASE label = "tech" -> "tech_retriever" [] label = "world" -> "world_retriever"
    [] label = "sports" -> "sports_retriever" [] label = "business" -> "business_retriever"
ReachedEnd == AgentRun /\ trace[Len(trace)] = "END"

\* (C12) A run of the answer graph executes at most one retriever node, the
\* one mapped to the label route_question returned, in the order route,
\* retriever, generate_answer, END, and exactly one when it reaches END; a
\* label outside {tech, world, sports, business} runs no retriever and no
\* generation.
C12_OneRetrieverInOrder ==
  AgentRun =>
    /\ Cardinality(RanRetrievers) <= 1
    /\ Len(trace) >= 2 =>
          /\ namespace \in {"tech", "world", "sports", "business"}
          /\ IsPrefix(trace, <<"route_question", RetrieverOf(namespace),
                               "generate_answer", "END">>)
    /\ ReachedEnd => (Cardinality(RanRetrievers) = 1 /\ Len(trace) = 4)
    /\ namespace \notin {"tech", "world", "sports", "business"} =>
          /\ trace = <<"route_question">>
          /\ ContextQueries = {}
          /\ Count(calls, "generate") = 0

C12_Witness ==
  /\ pc = "ended"
  /\ trace = <<"route_question", "tech_retriever", "generate_answer", "END">>
  /\ namespace = "tech"

\* (C13) For one question the text-generation model is invoked at most
\* once, and exactly once in every graph run that reaches END.
C13_OneGenerationPerQuestion ==
  AgentRun =>
    /\ Count(calls, "generate") <= 1
    /\ ReachedEnd => Count(calls, "generate") = 1
    /\ Count(calls, "generate") = 1 => "generate_answer" \in {trace[k] : k \in 1..Len(trace)}

C13_Witness ==
  /\ ReachedEnd
  /\ Count(calls, "generate") = 1
  /\ "answer" \in DOMAIN state

\* (C14) Retrieval for a question is scoped to one namespace: the
\* similarity search and the point lookup of get_context both query the
\* label the router returned for the question, never another topical
\* partition and never the router partition.
C14_RetrievalScopedToLabel ==
  /\ \A q \in ContextQueries :
       /\ q.namespace = namespace
       /\ q.namespace \in {"tech", "world", "sports", "business"}
       /\ q.namespace # "router"
  /\ Cardinality({q.namespace : q \in ContextQueries}) <= 1

C14_Witness ==
  /\ {q.kind : q \in ContextQueries} = {"vector", "id"}
  /\ namespace = "tech"
  /\ "context" \in DOMAIN state

Ids(matches) == {matches[k].id : k \in 1..Len(matches)}
RankedIds == {ranked_results[k].document.id : k \in 1..Len(ranked_results)}
ContextReturned == AgentRun /\ "context" \in DOMAIN state

EmptyRetrieval ==
  /\ AgentRun
  /\ \E q \in ContextQueries : q.kind = "vector"
  /\ query_results = <<>>
\* exceptions of the external services (secret store, embedding, index, models)
ServiceFaults ==
  {"ClientError", "TypeError", "RuntimeError", "PineconeException", "PineconeApiException"}
NoServiceFault == outcome.kind = "raised" => outcome.exc \notin ServiceFaults

\* (C16) When the similarity search in the routed namespace returns no
\* candidates and no external service fails, the run still invokes the
\* generation model once and reaches END.
C16_EmptyContextStillAnswers ==
  (pc = "ended" /\ EmptyRetrieval /\ NoServiceFault)
    => (ReachedEnd /\ Count(calls, "generate") = 1)

\* a chat request with an empty question has been handled
EmptyQuestionHandled == pc = "ended" /\ ~IngestRun /\ question = ""

\* (C17) A chat request with an empty question gets the fixed
\* prompt-for-input response and the graph is not invoked: no secret fetch,
\* no embedding, no routing, no retrieval and no generation call.
C17_EmptyQuestionSkipsGraph ==
  /\ EmptyQuestionHandled =>
       /\ sent = <<"Please enter a question!">>
       /\ outcome = Returned
       /\ calls = <<>>
       /\ queries = {}
       /\ trace = <<>>
       /\ state = <<>>
       /\ emb = EmbIdle
  /\ (~IngestRun /\ question = "") => pc \in {"idle", "ended"}

C17_Witness ==
  /\ EmptyQuestionHandled
  /\ Len(sent) = 1
  /\ calls = <<>>

\* (C18) The answer is delivered incrementally: what run_agent hands to the
\* caller are the fragments of the answer, in the order the model produced
\* them, one item per fragment, instead of the whole answer at once.
C18_AnswerStreamedInFragments ==
  ReachedEnd => sent = AnswerFragments(question, state["context"])

BatchFailed == pc = "ended" /\ IngestRun /\ outcome.kind = "raised"
Diverted == dlq # <<>>

\* (C19, as claimed) A batch whose processing raises is redelivered before
\* it is given up: a batch that reaches the dead-letter queue has been
\* handed to the handler more than once.
C19_FailedBatchRedelivered ==
  Diverted => attempt >= 2

\* (C19, amended) A batch whose processing raises is never redelivered: it
\* is handed to the handler once, the failed invocation is followed at once
\* by its diversion to the dead-letter queue, and after the diversion the
\* mapping is free for the next batch, so a failing batch does not block
\* the stream.
C19_FailedBatchDivertedAtOnce ==
  /\ [](/\ attempt <= 1
        /\ IngestRun => attempt = 1
        /\ Len(dlq) <= 1
        /\ Diverted => (BatchFailed /\ dlq[1].batch = event /\ dlq[1].attempts = 1))
  /\ [][/\ (BatchFailed /\ ~Diverted) => (Diverted' /\ event' = event /\ index' = index)
        /\ Diverted => (pc' = "idle" /\ index' = index)
        /\ (IngestRun /\ pc' = "idle") => (Diverted \/ outcome.kind = "returned")]_vars

C19_Witness ==
  /\ Diverted
  /\ errors = <<"RuntimeError">>
  /\ rec = 2
  /\ attempt = 1

WorkersRun == workers # <<>>
SharedBody == workers[1].record_body
\* what one sequential ingestion of the event leaves in the store
SequentialIds(body) ==
  {<<body["event_id"], i>> : i \in 0..(Len(get_chunks(body["event"])) - 1)}
SequentialNamespace(body) == IF body["summary"] = "S1" THEN "tech" ELSE "sports"
WorkerReturned(w) == workers[w].pc = "ended" /\ workers[w].outcome = Returned

\* (C20) Workers that ingest the same DocumentEvent in parallel need no
\* coordination: under every interleaving the store holds only the record
\* ids of one sequential ingestion, each id once, and as soon as one worker
\* has returned it holds all of them.
C20_ParallelIngestionConverges ==
  WorkersRun =>
    /\ \A w \in Workers : workers[w].record_body = SharedBody
    /\ \A ns \in Topical :
         /\ Cardinality(StoredIds(index)[ns]) = Cardinality(index[ns])
         /\ StoredIds(index)[ns] \subseteq
              (IF ns = SequentialNamespace(SharedBody)
               THEN SequentialIds(SharedBody) ELSE {})
    /\ (\E w \in Workers : WorkerReturned(w)) =>
         StoredIds(index)[SequentialNamespace(SharedBody)] = SequentialIds(SharedBody)
    /\ index["router"] = RouterLabelled

C20_Witness ==
  /\ WorkersRun
  /\ WorkerReturned(1) /\ WorkerReturned(2)
  /\ workers[1].upserted # workers[2].upserted
  /\ Len(workers[1].upserted) = 2
  /\ index["tech"] = {workers[1].upserted[k] : k \in 1..2}

\* a rerank call of the question failed with a rate-limit exception
RerankFailed ==
  pc = "ended" /\ AgentRun /\ outcome = Raised("PineconeApiException")

\* (C21) A rate-limit failure of a rerank call is retried before it fails
\* the question: a question that ends with the rerank exception has issued
\* the rerank call more than once in a row.
C21_RerankRetried ==
  RerankFailed =>
    /\ Len(calls) >= 2
    /\ calls[Len(calls)] = "rerank"
    /\ calls[Len(calls) - 1] = "rerank"

\* exceptions of the upstream services that are not rate limits
UpstreamFaults == {"ClientError", "TypeError", "PineconeException"}
\* the external operations that raise each of them
FailedOps(exc) ==
  CASE exc = "ClientError" -> {"secret", "generate"}
    [] exc = "TypeError" -> {"secret"}
    [] exc = "PineconeException" -> {"query", "upsert"}
UpstreamFailure == errors # <<>> /\ errors[1] \in UpstreamFaults

C23_ChatFailureNotMasked ==
  AgentRun =>
    /\ errors # <<>> =>
         /\ pc = "ended"
         /\ outcome = Raised(errors[Len(errors)])
         /\ sent = <<>>
         /\ ~ReachedEnd
    /\ outcome.kind = "returned" => (errors = <<>> /\ ReachedEnd)
    /\ sent # <<>> =>
         /\ errors = <<>>
         /\ Count(calls, "generate") = 1
         /\ sent = <<Answer(question, state["context"])>>

C23_Witness ==
  /\ AgentRun /\ pc = "ended"
  /\ errors = <<"IndexError">>
  /\ Len(trace) = 2
  /\ sent = <<>>

Max(S) == CHOOSE x \in S : \A y \in S : x >= y
\* the external calls made for the record being processed (for the record
\* just upserted once its upsert call is issued)
RecordCalls ==
  LET B == {k \in 1..Len(calls) :
              /\ calls[k] \in {"secret", "upsert"}
              /\ upserts = <<>> \/ k < Len(calls)}
  IN  IF B = {} THEN <<>> ELSE SubSeq(calls, Max(B) + 1, Len(calls))
StageRank(c) ==
  CASE c = "generate" -> 1 [] c = "embed" -> 2 [] c = "query" -> 3
    [] c = "upsert" -> 4 [] OTHER -> 0
\* the handler is inside the try block with a parsed record
InRecord ==
  /\ IngestRun /\ rec >= 1
  /\ event[rec].json /\ "event" \in DOMAIN event[rec].body

\* (C24) Within one event the stages run in a fixed linear order: all N
\* enrichment calls, then the passage embedding call, then the
\* classification of the summary, then the upsert; a stage starts only
\* after its predecessor has succeeded.
C24_StagesInOrder ==
  InRecord =>
    LET rc == RecordCalls
        N == Len(get_chunks(event[rec].body["event"]))
        generations == Count(rc, "generate")
        embeds == Count(rc, "embed")
        lookups == Count(rc, "query")
        writes == Count(rc, "upsert")
    IN /\ \A i \in 1..(Len(rc) - 1) : StageRank(rc[i]) <= StageRank(rc[i + 1])
       /\ generations <= N
       /\ embeds > 0 => (generations = N /\ Len(data) = N)
       /\ pc = "embed" => (embeds <= MAX_ATTEMPTS /\ emb.input_type = "passage")
       /\ embeds > MAX_ATTEMPTS => (Len(embeddings) = N /\ emb.input_type = "query")
       /\ lookups > 0 =>
            /\ embeds = 2 * MAX_ATTEMPTS
            /\ emb.status = "returned"
            /\ Len(embeddings) = N
       /\ writes > 0 =>
            /\ writes = 1
            /\ lookups = 2
            /\ namespace \in RouterLabels

C24_Witness ==
  /\ InRecord /\ pc = "next_record" /\ rec = 2
  /\ Count(RecordCalls, "generate") = 2
  /\ Count(RecordCalls, "embed") = 10
  /\ RecordCalls[Len(RecordCalls)] = "upsert"

\* the position of the first message_delta carrying a stop_reason, or one
\* past the end of the stream when there is none
FirstStop(stream) ==
  LET S == {k \in 1..Len(stream) :
              stream[k].type = "message_delta" /\ stream[k].stop}
  IN  IF S = {} THEN Len(stream) + 1 ELSE CHOOSE k \in S : \A j \in S : k <= j

\* the concatenation of the texts of the content_block_delta events of a
\* sequence of events, in order (an empty text adds nothing)
DeltaTexts(events) ==
  LET deltas == SelectSeq(events, LAMBDA e : e.type = "content_block_delta" /\ e.text # "")
  IN  [k \in 1..Len(deltas) |-> deltas[k].text]

BeforeStop(stream) == SubSeq(stream, 1, FirstStop(stream) - 1)

\* (C25) The enrichment context equals the concatenation, in delivery order,
\* of the text of every content_block_delta event received before the first
\* message_delta event carrying a stop_reason; nothing delivered after that
\* stop signal is included, and the stream is not read past it.
C25_ContextIsTextBeforeStop ==
  /\ adapter.taken <= FirstStop(adapter.stream)
  /\ adapter.status = "joined" =>
       /\ adapter.context = DeltaTexts(BeforeStop(adapter.stream))
       /\ adapter.context = JoinNonEmpty(invoke_model(adapter.stream))
       /\ adapter.taken = IF FirstStop(adapter.stream) > Len(adapter.stream)
                          THEN Len(adapter.stream)
                          ELSE FirstStop(adapter.stream)

C25_Witness ==
  /\ adapter.status = "joined"
  /\ adapter.context = <<"c1", "c2">>
  /\ Len(adapter.stream) = 4
  /\ FirstStop(adapter.stream) = 3
  /\ adapter.stream[4] = Delta("c1")

\* (C26) For an event with N chunks exactly N generation calls are made, one
\* per chunk in chunk order, and the call for chunk k+1 is issued only after
\* the stream of the call for chunk k has been consumed: at any moment at
\* most one call has no stored result, and that call is one that failed.
C26_OneGenerationPerChunkInOrder ==
  InRecord =>
    LET generations == Count(RecordCalls, "generate")
        N == Len(get_chunks(event[rec].body["event"]))
    IN /\ chunks = get_chunks(event[rec].body["event"])
       /\ Len(data) <= generations /\ generations <= Len(data) + 1
       /\ generations <= N
       /\ generations = Len(data) + 1 => (pc = "ended" /\ outcome.kind = "raised")
       /\ pc = "enrich" => generations < N
       /\ (pc \in {"embed", "ns_embed", "ns_lookup", "upsert", "next_record"}
            \/ Count(RecordCalls, "embed") > 0) => generations = N
       /\ \A k \in 1..Len(data) :
            /\ data[k].id = ChunkId(record_body["event_id"], k - 1)
            /\ EndsWith(data[k].text, <<"\n\n">> \o chunks[k])

C26_Witness ==
  /\ InRecord
  /\ pc = "next_record"
  /\ Len(chunks) = 4
  /\ Count(RecordCalls, "generate") = 4
  /\ Len(data) = 4
  /\ chunks[1] # chunks[4]

\* (C27) The query-time router matches the ingestion-time mechanism: for the
\* same text and the same router partition, get_namespace of the agent
\* returns the namespace get_namespace of the ingestion handler returns.
C27_RoutersAgree ==
  (AgentRun /\ question # "" /\ namespace # "none")
    => namespace = RoutedTo(index, [summary |-> question])

\* the records of the upsert call of the record being processed
Upserted == upserts[1].records

\* (C28) Embedding is order-preserving through record assembly: the upserted
\* record with id event_id-i carries the vector the embedding service
\* returned for the i-th contextual text, and its metadata text is exactly
\* that text (context, blank line, chunk i); no record pairs an id with
\* another chunk's vector.
C28_VectorsFollowChunks ==
  (InRecord /\ upserts # <<>>) =>
    /\ Len(Upserted) = Len(chunks)
    /\ \A k \in 1..Len(Upserted) :
         LET r == Upserted[k] IN
         /\ r.id = ChunkId(record_body["event_id"], k - 1)
         /\ r.metadata.text = data[k].text
         /\ EndsWith(r.metadata.text, <<"\n\n">> \o chunks[k])
         /\ r.values = EmbedOne(r.metadata.text, "passage")
    /\ pc = "next_record" =>
         \A k \in 1..Len(Upserted) : Upserted[k] \in index[upserts[1].namespace]

C28_Witness ==
  /\ InRecord
  /\ upserts # <<>>
  /\ pc = "next_record"
  /\ Len(Upserted) = 4
  /\ Upserted[1].values # Upserted[4].values
  /\ Upserted[4] \in index[namespace]

\* the step in which an exception ends the handler before the upsert call of
\* the record being processed
FailsBeforeUpsert ==
  /\ IngestRun
  /\ pc # "ended" /\ pc' = "ended" /\ outcome'.kind = "raised"
  /\ upserts' = <<>>

\* the records of namespace ns that are stored with the same content after
\* the step
Kept(ns) == index[ns] \cap index'[ns]

\* (C29) An event whose processing fails before its upsert call leaves the
\* vector store unchanged: the store is written only by the single upsert at
\* the end of an event that had no failure, so no record of a failed event is
\* stored, while the records stored for earlier events of the batch remain.
C29_FailedEventWritesNothing ==
  [][/\ FailsBeforeUpsert => index' = index
     /\ (IngestRun /\ index' # index) =>
          /\ pc = "upsert" /\ pc' = "next_record"
          /\ errors' = <<>>
          /\ Len(upserts') = 1
          /\ \A ns \in Namespaces :
               \A r \in index[ns] \ Kept(ns) :
                 /\ ns = upserts'[1].namespace
                 /\ r.metadata.event_id = record_body["event_id"]]_vars

C29_Witness ==
  /\ IngestRun
  /\ pc = "ended" /\ outcome.kind = "raised"
  /\ Len(event) = 2 /\ rec = 2 /\ upserts = <<>>
  /\ event[1] = Json(EvA) /\ event[2] = Json(EvB)
  /\ Count(RecordCalls, "generate") >= 1
  /\ \E r \in index["tech"] : r.metadata.event_id = EvA["event_id"]
  /\ \A ns \in Topical : \A r \in index[ns] : r.metadata.event_id # EvB["event_id"]

\* (C30) After ingestions of several versions of one event_id every stored
\* record with that event_id belongs to the version ingested last: no record
\* of an older version survives and all its records carry the same updated_at.
C30_OnlyLastVersionStored ==
  (InRecord /\ pc = "next_record" /\ upserts # <<>>) =>
    \A ns \in Topical : \A r \in index[ns] :
      r.metadata.event_id = record_body["event_id"] =>
        /\ r.metadata.updated_at = record_body["updated_at"]
        /\ \E k \in 1..Len(Upserted) : r = Upserted[k]

====
